---- MODULE Spec2Model ----
(***************************************************************************)
(* Model of copy_file_via_docker, the function that copies a file on a     *)
(* Docker host from within a container, in its two source variants         *)
(* (copy_on_host/copy_on_host.py and copy-on-host/wineinger.py).           *)
(*                                                                         *)
(* Strings the code takes apart (paths, log output, command words) are     *)
(* sequences of one-character strings, so that lstrip, [1:], strip and     *)
(* os.path.join are computed character by character as Python does.        *)
(* The docker client is a scripted engine: what each of its calls answers  *)
(* is fixed when the behaviour starts, so the engine is deterministic.     *)
(***************************************************************************)
EXTENDS Integers, Sequences, FiniteSets, TLC

VARIABLES
    variant,    \* which source file's copy_file_via_docker is running
    request,    \* per invocation: the arguments image_name, src_path, dest_path
    script,     \* what the engine answers to each client call
    pc,         \* pc[r]: position of invocation r in copy_file_via_docker
    locals,     \* locals[r]: the local variables of invocation r
    outcome,    \* outcome[r]: nothing yet, the returned 3-tuple, or the exception
    calls,      \* calls[r]: the client calls invocation r has made, in order
    printed,    \* printed[r]: the lines main has printed after invocation r
    engine      \* the engine's images and containers

vars == <<variant, request, script, pc, locals, outcome, calls, printed, engine>>

----------------------------------------------------------------------------
(* Bounds of the model.                                                    *)

MaxPull == 1        \* longest pull stream, in events
MaxLogLen == 3      \* longest captured stdout/stderr, in characters
MaxPathLen == 3     \* longest src_path/dest_path, in characters

----------------------------------------------------------------------------
(* Character strings.                                                      *)

Sep == "/"

SeqsUpTo(S, n) == UNION {[1..k -> S] : k \in 0..n}

StartsWith(s, p) == Len(s) >= Len(p) /\ SubSeq(s, 1, Len(p)) = p

EndsWith(s, p) == Len(s) >= Len(p) /\ SubSeq(s, Len(s) - Len(p) + 1, Len(s)) = p

DropFirst(s, n) == SubSeq(s, n + 1, Len(s))

\* str.lstrip(c): every leading c is removed
RECURSIVE LStrip(_, _)
LStrip(s, c) == IF s # <<>> /\ Head(s) = c THEN LStrip(Tail(s), c) ELSE s

\* s[1:]: the first character, whatever it is, is removed
SliceFrom1(s) == IF s = <<>> THEN <<>> ELSE Tail(s)

\* the characters str.strip() removes, among those of the model
Whitespace == {" ", "\n"}

RECURSIVE LStripWs(_)
LStripWs(s) == IF s # <<>> /\ Head(s) \in Whitespace THEN LStripWs(Tail(s)) ELSE s

RECURSIVE RStripWs(_)
RStripWs(s) ==
    IF s # <<>> /\ s[Len(s)] \in Whitespace
    THEN RStripWs(SubSeq(s, 1, Len(s) - 1)) ELSE s

StripLeftOnly(s) == LStripWs(s)

\* str.strip()
Strip(s) == RStripWs(LStripWs(s))

\* posixpath.join(a, b)
PathJoin(a, b) ==
    IF StartsWith(b, <<Sep>>) THEN b
    ELSE IF a = <<>> \/ EndsWith(a, <<Sep>>) THEN a \o b
    ELSE a \o <<Sep>> \o b

----------------------------------------------------------------------------
(* The constants of copy_file_via_docker.                                  *)

Variants == {"copy_on_host", "wineinger"}

host_path == <<"/">>

mount_point == <<"/", "m", "n", "t", "/", "h", "o", "s", "t">>

\* the in-container path of a host path, in copy_on_host.py
TranslateCopyOnHost(p) == PathJoin(mount_point, LStrip(p, Sep))

\* the in-container path of a host path, in wineinger.py
TranslateWineinger(p) == PathJoin(mount_point, SliceFrom1(p))

Translate(v, p) ==
    IF v = "copy_on_host" THEN TranslateCopyOnHost(p) ELSE TranslateWineinger(p)

CommandSwapped(v, src, dest) ==
    IF v = "copy_on_host"
    THEN <<<<"c", "p">>, <<"-", "v">>, dest, src>>
    ELSE <<<<"c", "p">>, dest, src>>

\* the cp command
Command(v, src, dest) ==
    IF v = "copy_on_host"
    THEN <<<<"c", "p">>, <<"-", "v">>, src, dest>>
    ELSE <<<<"c", "p">>, src, dest>>

Binds == [host |-> host_path, bind |-> mount_point, ro |-> FALSE]

----------------------------------------------------------------------------
(* The engine behind the docker client, and what it is scripted to answer. *)

Images == {"ubuntu:14.04", "busybox"}

Statuses == {"Downloading", "Pull complete"}

\* one decoded line of the pull stream: the keys it carries and its status
ErrorEvent == [keys |-> {"error", "errorDetail"}, status |-> ""]

ProgressEvents ==
    {[keys |-> {"status"} \cup k, status |-> s] :
        k \in SUBSET {"id", "progress"}, s \in Statuses}

Events == ProgressEvents \cup {ErrorEvent}

\* str.lower() on the statuses of the model
Lower(s) ==
    CASE s = "Downloading" -> "downloading"
      [] s = "Pull complete" -> "pull complete"
      [] OTHER -> s

LogChars == {" ", "x"}

PathChars == {"/", "a", "."}

\* what the engine answers: each call succeeds or raises, and succeeds with
\* the scripted value
ScriptsOver(Streams, Codes, Logs) ==
    [pull_ok : BOOLEAN, stream : Streams, create_ok : BOOLEAN, start_ok : BOOLEAN,
     exits : BOOLEAN, wait_ok : BOOLEAN, code : Codes,
     logs_ok : BOOLEAN, logs2_ok : BOOLEAN, out : Logs, err : Logs]

\* a script says nothing about calls that come after its first failure
Canonical(s, Streams, Codes, Logs) ==
    LET s0 == CHOOSE x \in Streams : \A y \in Streams : Len(x) <= Len(y)
        c0 == CHOOSE x \in Codes : \A y \in Codes : x <= y
        l0 == CHOOSE x \in Logs : \A y \in Logs : Len(x) <= Len(y)
        flags == <<s.pull_ok, s.create_ok, s.start_ok, s.exits, s.wait_ok,
                   s.logs_ok, s.logs2_ok>>
    IN  /\ \A i, j \in DOMAIN flags : (~flags[i] /\ ~flags[j]) => i = j
        /\ ~s.pull_ok => s.stream = s0
        /\ ~(s.pull_ok /\ s.create_ok /\ s.start_ok /\ s.exits /\ s.wait_ok)
              => s.code = c0
        /\ (\E i \in DOMAIN flags : ~flags[i]) => s.out = l0 /\ s.err = l0

Scripts(Streams, Codes, Logs) ==
    {s \in ScriptsOver(Streams, Codes, Logs) : Canonical(s, Streams, Codes, Logs)}

\* client.logs(container, stdout=so, stderr=se) on the scripted engine
EngineLogs(sc, so, se) ==
    (IF so THEN sc.out ELSE <<>>) \o (IF se THEN sc.err ELSE <<>>)

\* a host path at which there is no file
MissingFile == <<"/", "n", "o">>

\* what the process of a container with command cmd exits with and writes:
\* cp fails on a source that does not exist, and is scripted otherwise
ProcessOf(sc, cmd) ==
    IF cmd[Len(cmd) - 1] = mount_point \o MissingFile
    THEN [code |-> 1, out |-> <<>>, err |-> <<"n", "o">>]
    ELSE [code |-> sc.code, out |-> sc.out, err |-> sc.err]

----------------------------------------------------------------------------
(* Invocations.                                                            *)

Runs == {1, 2}

NoOutcome ==
    [kind |-> "none", exit_code |-> 0, stdout |-> <<>>, stderr |-> <<>>,
     exc |-> "", at |-> ""]

Returned(code, out, err) ==
    [kind |-> "returned", exit_code |-> code, stdout |-> out, stderr |-> err,
     exc |-> "", at |-> ""]

Raised(e, where) ==
    [kind |-> "raised", exit_code |-> 0, stdout |-> <<>>, stderr |-> <<>>,
     exc |-> e, at |-> where]

NoLocals ==
    [line |-> 0, src |-> <<>>, dest |-> <<>>, cmd |-> <<>>, container |-> 0,
     exit_code |-> 0, stdout |-> <<>>, stderr |-> <<>>]

\* copy_file_via_docker has returned or raised
Ended(r) == pc[r] \in {"done", "reported", "raised"}

\* the script that made invocation r has exited
Finished(r) == pc[r] \in {"reported", "raised"}

Requests(Imgs, Srcs, Dests) ==
    [image_name : Imgs, src_path : Srcs, dest_path : Dests]

\* the arguments of the invocations: the script run again with the same ones
SameRequest(Reqs) == {[r \in Runs |-> q] : q \in Reqs}

InitWith(Reqs, Scrs) ==
    /\ variant \in Variants
    /\ request \in SameRequest(Reqs)
    /\ script \in Scrs
    /\ pc = [r \in Runs |-> "idle"]
    /\ locals = [r \in Runs |-> NoLocals]
    /\ outcome = [r \in Runs |-> NoOutcome]
    /\ calls = [r \in Runs |-> <<>>]
    /\ printed = [r \in Runs |-> <<>>]
    /\ engine = [images |-> {}, containers |-> <<>>]

----------------------------------------------------------------------------
(* The steps of copy_file_via_docker, for invocation r.  An exception of   *)
(* the client, or of the function's own code, is not caught anywhere: it   *)
(* ends the invocation.                                                    *)

Goto(r, label) == pc' = [pc EXCEPT ![r] = label]

Raise(r, e, where) ==
    /\ pc' = [pc EXCEPT ![r] = "raised"]
    /\ outcome' = [outcome EXCEPT ![r] = Raised(e, where)]

Call(r, c) == calls' = [calls EXCEPT ![r] = Append(@, c)]

\* the body of the for loop over the pull stream: TRUE when it raises no KeyError
LineOk(v, ev) ==
    IF v = "copy_on_host"
    THEN /\ "status" \in ev.keys
         /\ Lower(ev.status) = "downloading" => {"id", "progress"} \subseteq ev.keys
    ELSE TRUE

LogsOrderSame(v) == <<"stdout", "stderr">>

\* the two client.logs calls, in the order the variant makes them
LogsOrder(v) ==
    IF v = "copy_on_host" THEN <<"stdout", "stderr">> ELSE <<"stderr", "stdout">>

LogsCallInterleaved(r, which) ==
    [op |-> "logs", container |-> locals[r].container,
     stdout |-> TRUE, stderr |-> TRUE]

LogsCall(r, which) ==
    [op |-> "logs", container |-> locals[r].container,
     stdout |-> (which = "stdout"), stderr |-> (which = "stderr")]

\* one invocation at a time: the script calls the function synchronously
Invoke(r) ==
    /\ pc[r] = "idle"
    /\ \A q \in Runs : q < r => Finished(q)
    /\ Goto(r, "pull")
    /\ UNCHANGED <<printed, variant, request, script, locals, outcome, calls, engine>>

PullIfMissing(r) ==
    /\ pc[r] = "pull"
    /\ IF request[r].image_name \in engine.images
       THEN /\ Goto(r, "paths")
            /\ UNCHANGED <<outcome, calls, engine>>
       ELSE /\ Call(r, [op |-> "pull", image |-> request[r].image_name, stream |-> TRUE])
            /\ IF script.pull_ok
               THEN /\ Goto(r, "stream")
                    /\ engine' = [engine EXCEPT !.images = @ \cup {request[r].image_name}]
                    /\ UNCHANGED outcome
               ELSE /\ Raise(r, "APIError", "pull")
                    /\ UNCHANGED engine
    /\ UNCHANGED <<printed, variant, request, script, locals>>

Pull(r) ==
    /\ pc[r] = "pull"
    /\ Call(r, [op |-> "pull", image |-> request[r].image_name, stream |-> TRUE])
    /\ IF script.pull_ok
       THEN /\ Goto(r, "stream")
            /\ engine' = [engine EXCEPT !.images =
                    IF \E i \in DOMAIN script.stream : script.stream[i] = ErrorEvent
                    THEN @ ELSE @ \cup {request[r].image_name}]
            /\ UNCHANGED outcome
       ELSE /\ Raise(r, "APIError", "pull")
            /\ UNCHANGED engine
    /\ UNCHANGED <<printed, variant, request, script, locals>>

Consume(r) ==
    /\ pc[r] = "stream"
    /\ LET i == locals[r].line + 1 IN
       IF i > Len(script.stream)
       THEN /\ Goto(r, "paths")
            /\ UNCHANGED <<locals, outcome>>
       ELSE IF LineOk(variant, script.stream[i])
       THEN /\ locals' = [locals EXCEPT ![r].line = i]
            /\ UNCHANGED <<pc, outcome>>
       ELSE /\ Raise(r, "KeyError", "stream")
            /\ UNCHANGED locals
    /\ UNCHANGED <<printed, variant, request, script, calls, engine>>

BuildCommand(r) ==
    /\ pc[r] = "paths"
    /\ LET src == Translate(variant, request[r].src_path)
           dest == Translate(variant, request[r].dest_path)
       IN locals' = [locals EXCEPT ![r].src = src, ![r].dest = dest,
                                   ![r].cmd = Command(variant, src, dest)]
    /\ Goto(r, "create")
    /\ UNCHANGED <<printed, variant, request, script, outcome, calls, engine>>

CreateShared(r) ==
    /\ pc[r] = "create"
    /\ Call(r, [op |-> "create_container", image |-> request[r].image_name,
                command |-> locals[r].cmd, volumes |-> <<mount_point>>])
    /\ IF script.create_ok
       THEN /\ engine' = [engine EXCEPT !.containers = Append(@,
                    [image |-> request[r].image_name, command |-> locals[r].cmd,
                     volumes |-> <<mount_point>>, binds |-> <<>>,
                     state |-> "created"])]
            /\ locals' = [q \in Runs |->
                    [locals[q] EXCEPT !.container = Len(engine.containers) + 1]]
            /\ Goto(r, "start")
            /\ UNCHANGED outcome
       ELSE /\ Raise(r, "APIError", "create_container")
            /\ UNCHANGED <<locals, engine>>
    /\ UNCHANGED <<printed, variant, request, script>>

Create(r) ==
    /\ pc[r] = "create"
    /\ Call(r, [op |-> "create_container", image |-> request[r].image_name,
                command |-> locals[r].cmd, volumes |-> <<mount_point>>])
    /\ IF script.create_ok
       THEN /\ engine' = [engine EXCEPT !.containers = Append(@,
                    [image |-> request[r].image_name, command |-> locals[r].cmd,
                     volumes |-> <<mount_point>>, binds |-> <<>>,
                     state |-> "created"])]
            /\ locals' = [locals EXCEPT ![r].container = Len(engine.containers) + 1]
            /\ Goto(r, "start")
            /\ UNCHANGED outcome
       ELSE /\ Raise(r, "APIError", "create_container")
            /\ UNCHANGED <<locals, engine>>
    /\ UNCHANGED <<printed, variant, request, script>>

\* the exit code client.wait(h) returns once the process of container h has exited
ExitCodeOf(h) == ProcessOf(script, engine.containers[h].command).code

StartNoWait(r) ==
    /\ pc[r] = "start"
    /\ Call(r, [op |-> "start", container |-> locals[r].container,
                binds |-> <<Binds>>])
    /\ IF script.start_ok
       THEN /\ engine' = [engine EXCEPT
                    !.containers[locals[r].container].state = "running",
                    !.containers[locals[r].container].binds = <<Binds>>]
            /\ Goto(r, "logs1")
            /\ UNCHANGED outcome
       ELSE /\ Raise(r, "APIError", "start")
            /\ UNCHANGED engine
    /\ UNCHANGED <<printed, variant, request, script, locals>>

StartIgnoreFailure(r) ==
    /\ pc[r] = "start"
    /\ Call(r, [op |-> "start", container |-> locals[r].container,
                binds |-> <<Binds>>])
    /\ engine' = IF script.start_ok
                 THEN [engine EXCEPT
                          !.containers[locals[r].container].state = "running",
                          !.containers[locals[r].container].binds = <<Binds>>]
                 ELSE engine
    /\ Goto(r, "wait")
    /\ UNCHANGED <<printed, variant, request, script, locals, outcome>>

Start(r) ==
    /\ pc[r] = "start"
    /\ Call(r, [op |-> "start", container |-> locals[r].container,
                binds |-> <<Binds>>])
    /\ IF script.start_ok
       THEN /\ engine' = [engine EXCEPT
                    !.containers[locals[r].container].state = "running",
                    !.containers[locals[r].container].binds = <<Binds>>]
            /\ Goto(r, "wait")
            /\ UNCHANGED outcome
       ELSE /\ Raise(r, "APIError", "start")
            /\ UNCHANGED engine
    /\ UNCHANGED <<printed, variant, request, script, locals>>

WaitCheckExit(r) ==
    /\ pc[r] = "wait"
    /\ script.exits
    /\ Call(r, [op |-> "wait", container |-> locals[r].container])
    /\ IF script.wait_ok /\ ExitCodeOf(locals[r].container) = 0
       THEN /\ engine' = [engine EXCEPT
                    !.containers[locals[r].container].state = "exited"]
            /\ locals' = [locals EXCEPT ![r].exit_code =
                    ExitCodeOf(locals[r].container)]
            /\ Goto(r, "logs1")
            /\ UNCHANGED outcome
       ELSE /\ Raise(r, IF script.wait_ok THEN "CalledProcessError" ELSE "APIError",
                     "wait")
            /\ UNCHANGED <<locals, engine>>
    /\ UNCHANGED <<printed, variant, request, script>>

\* client.wait blocks until the container's process has exited
Wait(r) ==
    /\ pc[r] = "wait"
    /\ script.exits
    /\ Call(r, [op |-> "wait", container |-> locals[r].container])
    /\ IF script.wait_ok
       THEN /\ engine' = [engine EXCEPT
                    !.containers[locals[r].container].state = "exited"]
            /\ locals' = [locals EXCEPT ![r].exit_code =
                    ExitCodeOf(locals[r].container)]
            /\ Goto(r, "logs1")
            /\ UNCHANGED outcome
       ELSE /\ Raise(r, "APIError", "wait")
            /\ UNCHANGED <<locals, engine>>
    /\ UNCHANGED <<printed, variant, request, script>>

\* the value one client.logs(container, ...).strip() assigns
Fetched(r, which) ==
    Strip(EngineLogs(ProcessOf(script, engine.containers[locals[r].container].command),
                     which = "stdout", which = "stderr"))

LogsFirst(r) ==
    /\ pc[r] = "logs1"
    /\ LET which == LogsOrder(variant)[1] IN
       /\ Call(r, LogsCall(r, which))
       /\ IF script.logs_ok
          THEN /\ locals' = [locals EXCEPT ![r] =
                      IF which = "stdout" THEN [@ EXCEPT !.stdout = Fetched(r, which)]
                      ELSE [@ EXCEPT !.stderr = Fetched(r, which)]]
               /\ Goto(r, "logs2")
               /\ UNCHANGED outcome
          ELSE /\ Raise(r, "APIError", "logs")
               /\ UNCHANGED locals
    /\ UNCHANGED <<printed, variant, request, script, engine>>

\* the second client.logs call and the return statement
LogsSecond(r) ==
    /\ pc[r] = "logs2"
    /\ LET which == LogsOrder(variant)[2]
           got == IF which = "stdout"
                  THEN [locals[r] EXCEPT !.stdout = Fetched(r, which)]
                  ELSE [locals[r] EXCEPT !.stderr = Fetched(r, which)]
       IN
       /\ Call(r, LogsCall(r, which))
       /\ IF script.logs2_ok
          THEN /\ locals' = [locals EXCEPT ![r] = got]
               /\ outcome' = [outcome EXCEPT ![r] =
                       Returned(got.exit_code, got.stdout, got.stderr)]
               /\ Goto(r, "done")
          ELSE /\ Raise(r, "APIError", "logs")
               /\ UNCHANGED locals
    /\ UNCHANGED <<printed, variant, request, script, engine>>

\* the lines main prints for a returned 3-tuple, in wineinger.py
ReportWineinger(code, out, err) ==
    <<[text |-> "-", times |-> 30], [text |-> "Exit Code: ", code |-> code]>>
        \o (IF out # <<>> THEN <<[text |-> "Stdout:\n", body |-> out]>> ELSE <<>>)
        \o (IF err # <<>> THEN <<[text |-> "Stderr:\n", body |-> err]>> ELSE <<>>)

\* the lines main prints for a returned 3-tuple, in copy_on_host.py
ReportCopyOnHost(code, out, err) ==
    ReportWineinger(code, out, err)
        \o (IF out = <<>> /\ err = <<>> THEN <<[text |-> "No output"]>> ELSE <<>>)

ReportAlwaysStderr(v, code, out, err) ==
    <<[text |-> "-", times |-> 30], [text |-> "Exit Code: ", code |-> code]>>
        \o (IF out # <<>> THEN <<[text |-> "Stdout:\n", body |-> out]>> ELSE <<>>)
        \o <<[text |-> "Stderr:\n", body |-> err]>>
        \o (IF v = "copy_on_host" /\ out = <<>> /\ err = <<>>
            THEN <<[text |-> "No output"]>> ELSE <<>>)

ReportLines(v, code, out, err) ==
    IF v = "copy_on_host" THEN ReportCopyOnHost(code, out, err)
    ELSE ReportWineinger(code, out, err)

\* main, after copy_file_via_docker has returned: an exception never gets here
Report(r) ==
    /\ pc[r] = "done"
    /\ printed' = [printed EXCEPT ![r] =
            ReportLines(variant, outcome[r].exit_code, outcome[r].stdout,
                        outcome[r].stderr)]
    /\ Goto(r, "reported")
    /\ UNCHANGED <<variant, request, script, locals, outcome, calls, engine>>

Next ==
    \E r \in Runs :
        \/ Invoke(r)
        \/ Report(r)
        \/ Pull(r)
        \/ Consume(r)
        \/ BuildCommand(r)
        \/ Create(r)
        \/ Start(r)
        \/ Wait(r)
        \/ LogsFirst(r)
        \/ LogsSecond(r)

----------------------------------------------------------------------------
(* Specifications.  They share Next and differ in the inputs Init draws.   *)

Streams == SeqsUpTo(Events, MaxPull)

Logs == SeqsUpTo(LogChars, MaxLogLen)

Paths == SeqsUpTo(PathChars, MaxPathLen)

SampleCodes == {0, 1}

SampleLogs == {<<>>, <<" ", "x", "\n">>}

SamplePaths == {<<"/", "a">>, <<"a", "/">>}

AllOk(s) ==
    /\ s.pull_ok /\ s.create_ok /\ s.start_ok /\ s.exits /\ s.wait_ok
    /\ s.logs_ok /\ s.logs2_ok

\* the orchestration: every pull stream and every outcome of every client call
Init ==
    InitWith(Requests(Images, SamplePaths, SamplePaths),
             Scripts(Streams, SampleCodes, SampleLogs))

Spec == Init /\ [][Next]_vars

\* the captured output: every stdout and stderr of the container
InitLogs ==
    InitWith(Requests({"ubuntu:14.04"}, {<<"/", "a">>}, {<<"/", ".">>}),
             {s \in Scripts({<<>>}, SampleCodes, Logs) : AllOk(s)})

SpecLogs == InitLogs /\ [][Next]_vars

\* the path translation: every src_path, and every dest_path
InitPaths ==
    InitWith(Requests({"ubuntu:14.04"}, Paths, SamplePaths)
                 \cup Requests({"ubuntu:14.04"}, SamplePaths, Paths),
             {s \in Scripts({<<>>}, {0}, {<<>>}) : AllOk(s)})

SpecPaths == InitPaths /\ [][Next]_vars

\* two runs of the script at the same time against one engine, each with its
\* own arguments: neither waits for the other
Launch(r) ==
    /\ pc[r] = "idle"
    /\ Goto(r, "pull")
    /\ UNCHANGED <<printed, variant, request, script, locals, outcome, calls, engine>>

NextConcurrent ==
    \E r \in Runs :
        \/ Launch(r)
        \/ Report(r)
        \/ Pull(r)
        \/ Consume(r)
        \/ BuildCommand(r)
        \/ Create(r)
        \/ Start(r)
        \/ Wait(r)
        \/ LogsFirst(r)
        \/ LogsSecond(r)

InitConcurrent ==
    /\ variant \in Variants
    /\ request \in [Runs -> Requests({"ubuntu:14.04"}, {<<"/", "a">>, MissingFile},
                                     {<<"/", "a">>})]
    /\ script \in Scripts({<<>>}, SampleCodes, SampleLogs)
    /\ pc = [r \in Runs |-> "idle"]
    /\ locals = [r \in Runs |-> NoLocals]
    /\ outcome = [r \in Runs |-> NoOutcome]
    /\ calls = [r \in Runs |-> <<>>]
    /\ printed = [r \in Runs |-> <<>>]
    /\ engine = [images |-> {}, containers |-> <<>>]

SpecConcurrent == InitConcurrent /\ [][NextConcurrent]_vars

\* the same arguments given to one file and then to the other, against the
\* same engine: invocation 1 is copy_on_host.py's function, 2 is wineinger.py's
VariantOf(r) == IF r = 1 THEN "copy_on_host" ELSE "wineinger"

InvokeVariant(r) ==
    /\ pc[r] = "idle"
    /\ \A q \in Runs : q < r => Finished(q)
    /\ variant' = VariantOf(r)
    /\ Goto(r, "pull")
    /\ UNCHANGED <<printed, request, script, locals, outcome, calls, engine>>

NextVariants ==
    \E r \in Runs :
        \/ InvokeVariant(r)
        \/ Report(r)
        \/ Pull(r)
        \/ Consume(r)
        \/ BuildCommand(r)
        \/ Create(r)
        \/ Start(r)
        \/ Wait(r)
        \/ LogsFirst(r)
        \/ LogsSecond(r)

VariantPaths == {<<"/", "a">>, <<"/", "/">>, <<"/", "/", "a">>}

InitVariants ==
    /\ InitWith(Requests(Images, VariantPaths, {<<"/", "a">>, <<"/", "/">>}),
                Scripts(Streams, SampleCodes, SampleLogs))
    /\ variant = VariantOf(1)

SpecVariants == InitVariants /\ [][NextVariants]_vars

----------------------------------------------------------------------------
(* Vocabulary of the properties.                                           *)

Ops(r) == [i \in 1..Len(calls[r]) |-> calls[r][i].op]

Called(r, op) == \E i \in 1..Len(calls[r]) : calls[r][i].op = op

IsPrefix(s, t) == Len(s) <= Len(t) /\ SubSeq(t, 1, Len(s)) = s

FixedOrder == <<"pull", "create_container", "start", "wait", "logs", "logs">>

HasErrorEvent == \E i \in 1..Len(script.stream) : script.stream[i] = ErrorEvent

IsAbsolute(p) == StartsWith(p, <<Sep>>)

\* invocation r has computed its in-container paths
Translated(r) == pc[r] \in {"create", "start", "wait", "logs1", "logs2", "done",
                             "reported"}
                    \/ (pc[r] = "raised" /\ Called(r, "create_container"))

\* client.wait has returned an exit code to invocation r
WaitReturned(r) == Called(r, "wait") /\ script.wait_ok

\* s is raw without its leading and trailing whitespace, and nothing else changed
IsStripped(s, raw) ==
    \E i, j \in 0..Len(raw) :
        /\ i + j <= Len(raw)
        /\ s = SubSeq(raw, i + 1, Len(raw) - j)
        /\ \A k \in 1..i : raw[k] \in Whitespace
        /\ \A k \in (Len(raw) - j + 1)..Len(raw) : raw[k] \in Whitespace
        /\ s # <<>> => s[1] \notin Whitespace /\ s[Len(s)] \notin Whitespace

\* the container h is still held by the engine
Exists(h) == h \in DOMAIN engine.containers /\ engine.containers[h].state # "removed"

\* the calls of invocation r, with its own container's handle written as 0
OwnCalls(r) ==
    [i \in 1..Len(calls[r]) |->
        IF "container" \in DOMAIN calls[r][i] /\ calls[r][i].container = locals[r].container
        THEN [calls[r][i] EXCEPT !.container = 0]
        ELSE calls[r][i]]

----------------------------------------------------------------------------
(* C1: the client calls of an invocation come in the fixed order pull,     *)
(* create_container, start, wait, logs, logs; no call is repeated or made  *)
(* out of turn, create_container is called only once the pull stream is    *)
(* consumed to its end, and an invocation that returns has made them all.  *)
C1_CallOrder ==
    \A r \in Runs :
        /\ IsPrefix(Ops(r), FixedOrder)
        /\ Called(r, "create_container") => locals[r].line = Len(script.stream)
        /\ outcome[r].kind = "returned" => Ops(r) = FixedOrder

C1_Witness ==
    \E r \in Runs : outcome[r].kind = "returned" /\ Len(script.stream) > 0

(* C2: when the pull stream carries a failure event, the invocation ends   *)
(* in a failure and calls neither create_container nor start, wait, logs.  *)
C2_PullFailureAborts ==
    \A r \in Runs :
        (script.pull_ok /\ HasErrorEvent) =>
            /\ \A i \in 1..Len(calls[r]) : calls[r][i].op = "pull"
            /\ Ended(r) => outcome[r].kind = "raised"

(* C3: a request with a src_path or dest_path that is not absolute is      *)
(* rejected as InvalidRequest before any client call is made.              *)
C3_RelativePathRejected ==
    \A r \in Runs :
        (~IsAbsolute(request[r].src_path) \/ ~IsAbsolute(request[r].dest_path)) =>
            /\ calls[r] = <<>>
            /\ Ended(r) => outcome[r] = Raised("InvalidRequest", "request")

(* C4: whatever exit code client.wait returns, zero or not, the invocation *)
(* goes on to fetch the logs, only a failing client.logs call can make it  *)
(* raise, and the tuple it returns carries that exit code unchanged.       *)
C4_ExitCodeNotAnError ==
    \A r \in Runs :
        WaitReturned(r) =>
            /\ locals[r].exit_code = script.code
            /\ Ended(r) => Called(r, "logs")
            /\ outcome[r].kind = "raised" =>
                   outcome[r].at = "logs" /\ (~script.logs_ok \/ ~script.logs2_ok)
            /\ pc[r] \in {"done", "reported"} =>
                   /\ outcome[r].kind = "returned"
                   /\ outcome[r].exit_code = script.code
                   /\ Ops(r) = FixedOrder

C4_Witness ==
    \E r \in Runs : outcome[r].kind = "returned" /\ outcome[r].exit_code # 0
                        /\ script.code # 0

(* C5: the returned stdout is what the stdout-only logs call answered,     *)
(* stripped of leading and trailing whitespace and otherwise unchanged,    *)
(* and the returned stderr is the same of the stderr-only logs call.       *)
C5_OutputIsStrippedLogs ==
    \A r \in Runs :
        outcome[r].kind = "returned" =>
            /\ IsStripped(outcome[r].stdout, EngineLogs(script, TRUE, FALSE))
            /\ IsStripped(outcome[r].stderr, EngineLogs(script, FALSE, TRUE))
            /\ \E i \in 1..Len(calls[r]) :
                   calls[r][i] = [op |-> "logs", container |-> locals[r].container,
                                  stdout |-> TRUE, stderr |-> FALSE]
            /\ \E i \in 1..Len(calls[r]) :
                   calls[r][i] = [op |-> "logs", container |-> locals[r].container,
                                  stdout |-> FALSE, stderr |-> TRUE]

C5_Witness ==
    \E r \in Runs :
        /\ outcome[r].kind = "returned"
        /\ script.out = <<" ", "x", " ">>
        /\ script.err = <<"x", " ", "x">>
        /\ outcome[r].stdout = <<"x">>
        /\ outcome[r].stderr = <<"x", " ", "x">>

(* C6: the in-container path of an absolute host path p is the mount point, *)
(* one separator, and p without exactly its first character.               *)
C6_StripOneAndJoin ==
    \A r \in Runs :
        Translated(r) =>
            /\ IsAbsolute(request[r].src_path) =>
                   locals[r].src = mount_point \o <<Sep>> \o Tail(request[r].src_path)
            /\ IsAbsolute(request[r].dest_path) =>
                   locals[r].dest = mount_point \o <<Sep>> \o Tail(request[r].dest_path)

(* C7: the host root "/" translates to the mount point itself, with no     *)
(* trailing separator.                                                     *)
C7_RootIsMountPoint ==
    \A r \in Runs :
        Translated(r) =>
            /\ request[r].src_path = host_path => locals[r].src = mount_point
            /\ request[r].dest_path = host_path => locals[r].dest = mount_point

(* C8: for an absolute host path p other than the root, the in-container   *)
(* path starts with the mount point and is p once that prefix is removed.  *)
C8_RoundTrip ==
    \A r \in Runs :
        Translated(r) =>
            /\ (IsAbsolute(request[r].src_path) /\ request[r].src_path # host_path) =>
                   /\ StartsWith(locals[r].src, mount_point)
                   /\ DropFirst(locals[r].src, Len(mount_point)) = request[r].src_path
            /\ (IsAbsolute(request[r].dest_path) /\ request[r].dest_path # host_path) =>
                   /\ StartsWith(locals[r].dest, mount_point)
                   /\ DropFirst(locals[r].dest, Len(mount_point)) = request[r].dest_path

(* C9: once an invocation has ended, the container it created is no longer *)
(* held by the engine.                                                     *)
C9_NoContainerLeak ==
    \A r \in Runs :
        (Ended(r) /\ locals[r].container # 0) => ~Exists(locals[r].container)

(* C10: two invocations with the same arguments on the same scripted       *)
(* engine end with the same outcome and make the same client calls with    *)
(* the same arguments, each on the container it created itself.            *)
C10_SameTwice ==
    (Ended(1) /\ Ended(2)) =>
        /\ outcome[1] = outcome[2]
        /\ OwnCalls(1) = OwnCalls(2)

C10_Witness ==
    /\ outcome[1].kind = "returned"
    /\ outcome[2].kind = "returned"
    /\ outcome[2].exit_code = 1
    /\ outcome[2].stdout # <<>>
    /\ locals[1].container # locals[2].container
    /\ Len(engine.containers) = 2

----------------------------------------------------------------------------
(* The report main prints.                                                 *)

SeparatorLine == [text |-> "-", times |-> 30]

ExitCodeLine(r) == [text |-> "Exit Code: ", code |-> outcome[r].exit_code]

StdoutSection(r) == [text |-> "Stdout:\n", body |-> outcome[r].stdout]

StderrSection(r) == [text |-> "Stderr:\n", body |-> outcome[r].stderr]

NoOutputLine == [text |-> "No output"]

Printed(r, line) == \E i \in 1..Len(printed[r]) : printed[r][i] = line

\* the separator, the exit code, then the sections of the non-empty streams
FixedReport(r) ==
    <<SeparatorLine, ExitCodeLine(r)>>
        \o (IF outcome[r].stdout # <<>> THEN <<StdoutSection(r)>> ELSE <<>>)
        \o (IF outcome[r].stderr # <<>> THEN <<StderrSection(r)>> ELSE <<>>)

(* C11 as stated: for every result main prints the separator line, the     *)
(* exit-code line, a Stdout section iff stdout is not empty, a Stderr      *)
(* section iff stderr is not empty, and nothing else.                      *)
C11_FixedReportOnly ==
    \A r \in Runs : pc[r] = "reported" => printed[r] = FixedReport(r)

(* C11 as amended: main prints the separator line, the exit-code line, a   *)
(* Stdout section iff stdout is not empty, a Stderr section iff stderr is  *)
(* not empty and, in copy_on_host.py only, a last line "No output" iff     *)
(* both are empty; nothing is printed for an invocation that raised.       *)
C11_Report ==
    \A r \in Runs :
        /\ pc[r] # "reported" => printed[r] = <<>>
        /\ pc[r] = "reported" =>
              /\ IsPrefix(<<SeparatorLine, ExitCodeLine(r)>>, printed[r])
              /\ Printed(r, StdoutSection(r)) <=> outcome[r].stdout # <<>>
              /\ Printed(r, StderrSection(r)) <=> outcome[r].stderr # <<>>
              /\ Printed(r, NoOutputLine) <=>
                     /\ variant = "copy_on_host"
                     /\ outcome[r].stdout = <<>>
                     /\ outcome[r].stderr = <<>>
              /\ IF Printed(r, NoOutputLine)
                 THEN printed[r] = FixedReport(r) \o <<NoOutputLine>>
                 ELSE printed[r] = FixedReport(r)

C11_Witness ==
    \E r \in Runs :
        /\ pc[r] = "reported"
        /\ outcome[r].stdout = <<"x", " ", "x">>
        /\ outcome[r].stderr = <<>>
        /\ Len(printed[r]) = 3
        /\ ~Printed(r, StderrSection(r))

----------------------------------------------------------------------------
(* Failures of the engine.                                                 *)

\* the i-th client call of invocation r is one the engine is scripted to fail
CallFails(r, i) ==
    LET op == calls[r][i].op IN
    CASE op = "pull" -> ~script.pull_ok
      [] op = "create_container" -> ~script.create_ok
      [] op = "start" -> ~script.start_ok
      [] op = "wait" -> ~script.wait_ok
      [] op = "logs" ->
            IF \E j \in 1..(i - 1) : calls[r][j].op = "logs"
            THEN ~script.logs2_ok ELSE ~script.logs_ok
      [] OTHER -> FALSE

(* C12: a client call that fails is the last client call of its            *)
(* invocation: nothing is retried and no later call is made; the           *)
(* invocation ends with the engine's exception, unchanged, returns no      *)
(* result, and main prints no report.                                      *)
C12_FailureIsTerminal ==
    \A r \in Runs : \A i \in 1..Len(calls[r]) :
        CallFails(r, i) =>
            /\ i = Len(calls[r])
            /\ pc[r] = "raised"
            /\ outcome[r] = Raised("APIError", calls[r][i].op)
            /\ printed[r] = <<>>

C12_Witness ==
    \E r \in Runs :
        /\ Len(calls[r]) = 6
        /\ CallFails(r, 6)
        /\ outcome[r].kind = "raised"
        /\ pc[3 - r] = "raised"

----------------------------------------------------------------------------
(* The pull stream.                                                        *)

OnlyProgressEvents == \A i \in 1..Len(script.stream) : script.stream[i] \in ProgressEvents

CountCalls(r, op) == Cardinality({i \in 1..Len(calls[r]) : calls[r][i].op = op})

(* C13: whatever progress events a pull stream carries (a status, with or  *)
(* without an identifier, with or without a progress value), the           *)
(* invocation consumes them all in order and goes on to call               *)
(* create_container, once: no event ends the invocation.                   *)
C13_EventsDoNotSteer ==
    \A r \in Runs :
        (script.pull_ok /\ OnlyProgressEvents) =>
            /\ pc[r] = "raised" => Called(r, "create_container")
            /\ pc[r] \notin {"idle", "pull", "stream", "raised"} =>
                   locals[r].line = Len(script.stream)
            /\ CountCalls(r, "create_container") <= 1

----------------------------------------------------------------------------
(* The retrieval of the logs.                                              *)

StdoutOnly(c) == c.op = "logs" /\ c.stdout /\ ~c.stderr

StderrOnly(c) == c.op = "logs" /\ ~c.stdout /\ c.stderr

\* every logs call of invocation r asks for one stream of r's own container,
\* after client.wait has returned
LogsCallsAreSplit(r) ==
    \A i \in 1..Len(calls[r]) :
        calls[r][i].op = "logs" =>
            /\ StdoutOnly(calls[r][i]) \/ StderrOnly(calls[r][i])
            /\ calls[r][i].container = locals[r].container
            /\ script.wait_ok
            /\ \E j \in 1..(i - 1) : calls[r][j].op = "wait"

(* C14 as stated: a returning invocation makes exactly two logs calls,     *)
(* after wait: first the stdout-only call, then the stderr-only call.      *)
C14_StdoutThenStderr ==
    \A r \in Runs :
        /\ LogsCallsAreSplit(r)
        /\ outcome[r].kind = "returned" =>
              /\ CountCalls(r, "logs") = 2
              /\ StdoutOnly(calls[r][5])
              /\ StderrOnly(calls[r][6])

(* C14 as amended: a returning invocation makes exactly two logs calls on  *)
(* its container, after wait has returned, one for stdout only and one for *)
(* stderr only and none for both; copy_on_host.py asks for stdout first,   *)
(* wineinger.py for stderr first.                                          *)
C14_TwoSplitLogsCalls ==
    \A r \in Runs :
        /\ LogsCallsAreSplit(r)
        /\ outcome[r].kind = "returned" =>
              /\ CountCalls(r, "logs") = 2
              /\ IF variant = "copy_on_host"
                 THEN StdoutOnly(calls[r][5]) /\ StderrOnly(calls[r][6])
                 ELSE StderrOnly(calls[r][5]) /\ StdoutOnly(calls[r][6])

C14_Witness ==
    \E r \in Runs :
        /\ outcome[r].kind = "returned"
        /\ variant = "wineinger"
        /\ StderrOnly(calls[r][5])
        /\ StdoutOnly(calls[r][6])
        /\ calls[r][4].op = "wait"

----------------------------------------------------------------------------
(* The mount.                                                              *)

\* the last two words of a command
LastTwo(cmd) == SubSeq(cmd, Len(cmd) - 1, Len(cmd))

(* C15: start is called with exactly one bind, of the host root "/" to the *)
(* mount point, writable; that mount point is the one volume declared to   *)
(* create_container and, for absolute host paths, the prefix of both paths *)
(* of the command.                                                         *)
C15_OneMountPoint ==
    \A r \in Runs :
        Called(r, "start") =>
            LET cr == calls[r][2]
                st == calls[r][3]
            IN  /\ Len(st.binds) = 1
                /\ st.binds[1].host = <<"/">>
                /\ st.binds[1].ro = FALSE
                /\ cr.volumes = <<st.binds[1].bind>>
                /\ (IsAbsolute(request[r].src_path) /\ IsAbsolute(request[r].dest_path)) =>
                       \A i \in 1..2 :
                           StartsWith(LastTwo(cr.command)[i], st.binds[1].bind)

----------------------------------------------------------------------------
(* The command.                                                            *)

(* C16: the command given to create_container is cp, and its last two      *)
(* words are the in-container path of src_path and then the in-container   *)
(* path of dest_path; the image of the container is the image that was     *)
(* pulled.                                                                 *)
C16_CommandCopiesSrcToDest ==
    \A r \in Runs :
        Called(r, "create_container") =>
            LET cr == calls[r][2] IN
            /\ Head(cr.command) = <<"c", "p">>
            /\ LastTwo(cr.command) = <<Translate(variant, request[r].src_path),
                                       Translate(variant, request[r].dest_path)>>
            /\ calls[r][1].op = "pull"
            /\ cr.image = calls[r][1].image
            /\ locals[r].container # 0 =>
                   /\ engine.containers[locals[r].container].command = cr.command
                   /\ engine.containers[locals[r].container].image = calls[r][1].image

C16_Witness ==
    \E r \in Runs :
        /\ Called(r, "create_container")
        /\ locals[r].container # 0
        /\ request[r].image_name = "busybox"
        /\ request[r].src_path = <<"/", "a">>
        /\ request[r].dest_path = <<"a", "/">>

----------------------------------------------------------------------------
(* Termination.                                                            *)

\* a step of copy_file_via_docker in invocation r
RunStep(r) ==
    \/ Pull(r) \/ Consume(r) \/ BuildCommand(r) \/ Create(r) \/ Start(r)
    \/ Wait(r) \/ LogsFirst(r) \/ LogsSecond(r)

Running(r) == pc[r] \notin {"idle", "done", "reported", "raised"}

(* C17: with a finite pull stream of progress events, client calls that    *)
(* all return and a container that exits, no invocation ends without a     *)
(* result and every unfinished one can take its next step, so it goes on   *)
(* to return; an invocation can be held up only in client.wait, by a       *)
(* container that never exits, and then it fetches no logs and returns     *)
(* nothing.                                                                *)
C17_RunsToResult ==
    \A r \in Runs :
        /\ (AllOk(script) /\ OnlyProgressEvents) => pc[r] # "raised"
        /\ (Running(r) /\ ~ENABLED RunStep(r)) => pc[r] = "wait" /\ ~script.exits
        /\ ~script.exits =>
               /\ ~Called(r, "logs")
               /\ outcome[r].kind # "returned"
               /\ pc[r] \notin {"logs1", "logs2", "done", "reported"}

----------------------------------------------------------------------------
(* Two runs at the same time.                                              *)

\* what copy_file_via_docker(q.image_name, q.src_path, q.dest_path) gives
\* when nothing else uses the engine; NoOutcome when it never returns
AloneOutcome(v, q, sc) ==
    LET cmd == Command(v, Translate(v, q.src_path), Translate(v, q.dest_path))
        p == ProcessOf(sc, cmd)
    IN  IF ~sc.pull_ok THEN Raised("APIError", "pull")
        ELSE IF \E i \in DOMAIN sc.stream : ~LineOk(v, sc.stream[i])
             THEN Raised("KeyError", "stream")
        ELSE IF ~sc.create_ok THEN Raised("APIError", "create_container")
        ELSE IF ~sc.start_ok THEN Raised("APIError", "start")
        ELSE IF ~sc.exits THEN NoOutcome
        ELSE IF ~sc.wait_ok THEN Raised("APIError", "wait")
        ELSE IF ~(sc.logs_ok /\ sc.logs2_ok) THEN Raised("APIError", "logs")
        ELSE Returned(p.code, Strip(p.out), Strip(p.err))

\* the calls of invocation r that name a container
OnContainer(r) ==
    {i \in 1..Len(calls[r]) : calls[r][i].op \in {"start", "wait", "logs"}}

(* C18: when two runs use the same engine at the same time, in whatever    *)
(* order their steps interleave, every start, wait and logs call of a run  *)
(* names the container that the run's own create_container call made,      *)
(* which is never the other run's container, and the run ends with the     *)
(* result it has when it runs alone.                                       *)
C18_RunsAreIsolated ==
    \A r \in Runs :
        /\ \A i \in OnContainer(r) :
               /\ calls[r][i].container = locals[r].container
               /\ locals[r].container \in DOMAIN engine.containers
               /\ engine.containers[locals[r].container].command = calls[r][2].command
               /\ engine.containers[locals[r].container].image = calls[r][2].image
        /\ \A q \in Runs \ {r} :
               locals[r].container # 0 => locals[q].container # locals[r].container
        /\ Ended(r) => outcome[r] = AloneOutcome(variant, request[r], script)

C18_Witness ==
    /\ request[1].src_path = MissingFile
    /\ request[2].src_path # MissingFile
    /\ locals[1].container = 2
    /\ locals[2].container = 1
    /\ outcome[1].kind = "returned"
    /\ outcome[2].kind = "returned"
    /\ outcome[1] # outcome[2]

----------------------------------------------------------------------------
(* The two files.                                                          *)

\* a host path that starts with one separator and no more
OneLeadingSep(p) == IsAbsolute(p) /\ (Len(p) > 1 => p[2] # Sep)

\* what invocation r returns when it returns: the exit code and the stripped
\* streams of the process of its own container
OwnResult(r) ==
    LET p == ProcessOf(script, engine.containers[locals[r].container].command)
    IN  Returned(p.code, Strip(p.out), Strip(p.err))

(* C19 as stated: given the same image and absolute paths and the same     *)
(* engine, copy_on_host.py's function and wineinger.py's make the same     *)
(* client calls with the same arguments in the same order and end the      *)
(* same way.                                                               *)
C19_VariantsEquivalent ==
    (Ended(1) /\ Ended(2)) =>
        /\ outcome[1] = outcome[2]
        /\ OwnCalls(1) = OwnCalls(2)

(* C19: given the same image and absolute paths and the same engine, the   *)
(* two functions make the same pull, start and wait calls and pass the     *)
(* same image and volumes to create_container; the command is cp -v in     *)
(* copy_on_host.py and cp in wineinger.py, with the same two paths when    *)
(* each host path starts with exactly one separator; the two logs calls    *)
(* are the same two in opposite orders; each returns the result of its own *)
(* container; a failing client call ends both alike, except that only     *)
(* copy_on_host.py can end earlier, with KeyError in the pull loop.        *)
C19_SameButForKnownDifferences ==
    LET c1 == OwnCalls(1)
        c2 == OwnCalls(2)
        both(n) == Len(c1) >= n /\ Len(c2) >= n
    IN  /\ both(1) => c1[1] = c2[1]
        /\ both(2) =>
               /\ c1[2].op = c2[2].op
               /\ c1[2].image = c2[2].image
               /\ c1[2].volumes = c2[2].volumes
               /\ c1[2].command = <<<<"c", "p">>, <<"-", "v">>>> \o LastTwo(c1[2].command)
               /\ c2[2].command = <<<<"c", "p">>>> \o LastTwo(c2[2].command)
               /\ OneLeadingSep(request[1].src_path) =>
                      LastTwo(c1[2].command)[1] = LastTwo(c2[2].command)[1]
               /\ OneLeadingSep(request[1].dest_path) =>
                      LastTwo(c1[2].command)[2] = LastTwo(c2[2].command)[2]
        /\ both(3) => c1[3] = c2[3]
        /\ both(4) => c1[4] = c2[4]
        /\ both(5) => c1[5].op = "logs" /\ c1[5] # c2[5]
        /\ both(6) => c1[5] = c2[6] /\ c1[6] = c2[5]
        /\ \A r \in Runs : outcome[r].kind = "returned" => outcome[r] = OwnResult(r)
        /\ outcome[2].exc # "KeyError"
        /\ (Ended(1) /\ Ended(2) /\ outcome[1] # outcome[2]) =>
               \/ outcome[1] = Raised("KeyError", "stream")
               \/ outcome[1].kind = "returned" /\ outcome[2].kind = "returned"

C19_Witness ==
    /\ pc[1] = "reported"
    /\ pc[2] = "reported"
    /\ request[1].src_path = <<"/", "/", "a">>
    /\ OwnCalls(1)[2].command # OwnCalls(2)[2].command
    /\ OwnCalls(1)[5] = OwnCalls(2)[6]

====
